---- MODULE Spec2Model ----
(***************************************************************************)
(* Model of align.py: class StringAligner (Needleman-Wunsch alignment with *)
(* affine gap penalties over three score matrices).                        *)
(*                                                                         *)
(* A Python string is a sequence of one-character strings; Python's 0-based *)
(* s[k-1] is the 1-based s[k] here.  A matrix (list of lists) is a function *)
(* [0..nRow-1 -> [0..nCol-1 -> number]].  None is the empty tuple.         *)
(***************************************************************************)
EXTENDS Integers, Sequences, FiniteSets, TLC

\* ---------------------------------------------------------------- bounds
MaxLen == 3

Alphabet == {"A", "B"}
GapMarker == "-"

Strings == UNION {[1..k -> Alphabet] : k \in 0..MaxLen}
\* constructor arguments tried: each set holds values the assertions accept
\* and one they reject
GapOpenValues == {0, 1, 2}
GapExtendValues == {-1, 0, 1}
MismatchValues == {0, 1}
MatchBonusValues == {-2, 0, 1}

\* ------------------------------------------------- module-level defaults
GAP_OPENING_PENALTY == 2
GAP_EXTENSION_PENALTY == 1
MISMATCH_PENALTY == 1
MATCH_BONUS == -2

\* ----------------------------------------------------------- arithmetic
\* float("inf"): larger than every finite score of the model, absorbing
\* under addition.
Inf == 1000000

Plus(a, b) == IF a = Inf \/ b = Inf THEN Inf ELSE a + b

Min2(a, b) == IF a <= b THEN a ELSE b

Min3(a, b, c) == Min2(a, Min2(b, c))

None == <<>>

zeroMatrix(nRow, nCol) == [r \in 0..(nRow - 1) |-> [c \in 0..(nCol - 1) |-> 0]]

\* ------------------------------------------------------- state variables
VARIABLES
  args,                 \* the arguments the constructor is called with
  attrs,                \* names of the attributes set on the instance
  s1, s2,
  gapOpeningPenalty, gapExtensionPenalty, mismatchPenalty, matchBonus,
  matchMatrix, gapMatrix1, gapMatrix2,
  bestAlignment,
  pc,                   \* "new", "idle", "loop", or the exception raised
  i, j, s1Align, s2Align, currentMatrix, score,   \* locals of _constructAlignment
  ret,                  \* the last public call: its name, the value it returned,
                        \* and whether it computed nothing (served from the cache)
  fillCount,            \* number of runs of _computeScoreMatrix
  tracebackCount,       \* number of runs of the traceback loop
  scoreReturns,         \* every value getAlignmentScore() has returned
  alignReturns          \* every value align() has returned

vars == <<args, attrs, s1, s2, gapOpeningPenalty, gapExtensionPenalty,
          mismatchPenalty, matchBonus, matchMatrix, gapMatrix1, gapMatrix2,
          bestAlignment, pc, i, j, s1Align, s2Align, currentMatrix, score,
          ret, fillCount, tracebackCount, scoreReturns, alignReturns>>

fields == <<s1, s2, gapOpeningPenalty, gapExtensionPenalty, mismatchPenalty, matchBonus>>
matrices == <<matchMatrix, gapMatrix1, gapMatrix2>>
locals == <<i, j, s1Align, s2Align, currentMatrix, score>>

AllAttrs == {"_s1", "_s2", "_gapOpeningPenalty", "_gapExtensionPenalty",
             "_mismatchPenalty", "_matchBonus", "_matchMatrix", "_gapMatrix1",
             "_gapMatrix2", "_bestAlignment"}

\* ------------------------------------------------------------- __init__
\* variant: a zero extension penalty (linear scoring) is rejected
validArgumentsStrictExtension(a) ==
  /\ a.gapOpeningPenalty > 0
  /\ a.gapExtensionPenalty > 0
  /\ a.mismatchPenalty > 0
  /\ a.matchBonus <= 0

\* the four assertions on the penalties
validArguments(a) ==
  /\ a.gapOpeningPenalty > 0
  /\ a.gapExtensionPenalty >= 0
  /\ a.mismatchPenalty > 0
  /\ a.matchBonus <= 0

Init ==
  /\ args \in [s1 : Strings, s2 : Strings,
               gapOpeningPenalty : GapOpenValues,
               gapExtensionPenalty : GapExtendValues,
               mismatchPenalty : MismatchValues,
               matchBonus : MatchBonusValues]
  /\ attrs = {}
  /\ s1 = <<>> /\ s2 = <<>>
  /\ gapOpeningPenalty = 0 /\ gapExtensionPenalty = 0
  /\ mismatchPenalty = 0 /\ matchBonus = 0
  /\ matchMatrix = None /\ gapMatrix1 = None /\ gapMatrix2 = None
  /\ bestAlignment = None
  /\ pc = "new"
  /\ i = 0 /\ j = 0 /\ s1Align = <<>> /\ s2Align = <<>>
  /\ currentMatrix = "M" /\ score = 0
  /\ ret = [op |-> "none", value |-> None, cached |-> FALSE]
  /\ fillCount = 0 /\ tracebackCount = 0
  /\ scoreReturns = {} /\ alignReturns = {}

Construct ==
  /\ pc = "new"
  /\ IF validArguments(args)
       THEN /\ s1' = args.s1
            /\ s2' = args.s2
            /\ gapOpeningPenalty' = args.gapOpeningPenalty
            /\ gapExtensionPenalty' = args.gapExtensionPenalty
            /\ mismatchPenalty' = args.mismatchPenalty
            /\ matchBonus' = args.matchBonus
            /\ attrs' = AllAttrs
            /\ pc' = "idle"
       ELSE /\ pc' = "AssertionError"
            /\ UNCHANGED <<fields, attrs>>
  /\ UNCHANGED <<args, matrices, bestAlignment, locals, ret,
                 fillCount, tracebackCount, scoreReturns, alignReturns>>

\* ---------------------------------------------------- _initializeMatrix
\* The assignments are applied in the order of the code, so that a later
\* one overwrites an earlier one on the cells they share.
\* variant: the first row of gapMatrix1 charges an extension for every
\* position, the first included
initializeMatrixRowOffByOne(a, b, go, ge) ==
  LET m == Len(a)
      n == Len(b)
      M0 == [zeroMatrix(m + 1, n + 1) EXCEPT ![0] = [c \in 0..n |-> Inf]]
      G1a == [zeroMatrix(m + 1, n + 1) EXCEPT ![0] = [c \in 0..n |-> go + ge * c]]
      M1 == [r \in 0..m |-> [M0[r] EXCEPT ![0] = Inf]]
      G1b == [r \in 0..m |-> [G1a[r] EXCEPT ![0] = Inf]]
      G2a == [r \in 0..m |-> [zeroMatrix(m + 1, n + 1)[r] EXCEPT ![0] = go + ge * (r - 1)]]
      G2b == [G2a EXCEPT ![0] = [c \in 0..n |-> Inf]]
  IN  [M |-> M1, G1 |-> G1b, G2 |-> G2b]

\* variant: the first column of both gap matrices is infinite, as the
\* comment above the assignments says
initializeMatrixInfColumn(a, b, go, ge) ==
  LET m == Len(a)
      n == Len(b)
      M0 == [zeroMatrix(m + 1, n + 1) EXCEPT ![0] = [c \in 0..n |-> Inf]]
      G1a == [zeroMatrix(m + 1, n + 1) EXCEPT ![0] = [c \in 0..n |-> go + ge * (c - 1)]]
      M1 == [r \in 0..m |-> [M0[r] EXCEPT ![0] = Inf]]
      G1b == [r \in 0..m |-> [G1a[r] EXCEPT ![0] = Inf]]
      G2a == [r \in 0..m |-> [zeroMatrix(m + 1, n + 1)[r] EXCEPT ![0] = Inf]]
      G2b == [G2a EXCEPT ![0] = [c \in 0..n |-> Inf]]
  IN  [M |-> M1, G1 |-> G1b, G2 |-> G2b]

initializeMatrix(a, b, go, ge) ==
  LET m == Len(a)
      n == Len(b)
      M0 == [zeroMatrix(m + 1, n + 1) EXCEPT ![0] = [c \in 0..n |-> Inf]]
      G1a == [zeroMatrix(m + 1, n + 1) EXCEPT ![0] = [c \in 0..n |-> go + ge * (c - 1)]]
      M1 == [r \in 0..m |-> [M0[r] EXCEPT ![0] = Inf]]
      G1b == [r \in 0..m |-> [G1a[r] EXCEPT ![0] = Inf]]
      G2a == [r \in 0..m |-> [zeroMatrix(m + 1, n + 1)[r] EXCEPT ![0] = go + ge * (r - 1)]]
      G2b == [G2a EXCEPT ![0] = [c \in 0..n |-> Inf]]
  IN  [M |-> M1, G1 |-> G1b, G2 |-> G2b]

\* --------------------------------------------------- _computeScoreMatrix
\* body of the double loop for one cell (r, c), 1 <= r <= m, 1 <= c <= n
\* variant: gapMatrix2 enters from gapMatrix1 without the opening penalty
fillCellNoReopen(mats, a, b, go, ge, mm, mb, r, c) ==
  LET matchScore == IF a[r] = b[c] THEN mb ELSE mm
      M2 == [mats.M EXCEPT ![r][c] =
               Plus(matchScore, Min3(mats.M[r - 1][c - 1], mats.G1[r - 1][c - 1],
                                     mats.G2[r - 1][c - 1]))]
      G1n == [mats.G1 EXCEPT ![r][c] =
               Min3(Plus(go + ge, M2[r][c - 1]),
                    Plus(ge, mats.G1[r][c - 1]),
                    Plus(go + ge, mats.G2[r][c - 1]))]
      G2n == [mats.G2 EXCEPT ![r][c] =
               Min3(Plus(go + ge, M2[r - 1][c]),
                    Plus(ge, G1n[r - 1][c]),
                    Plus(ge, mats.G2[r - 1][c]))]
  IN  [M |-> M2, G1 |-> G1n, G2 |-> G2n]

fillCell(mats, a, b, go, ge, mm, mb, r, c) ==
  LET matchScore == IF a[r] = b[c] THEN mb ELSE mm
      M2 == [mats.M EXCEPT ![r][c] =
               Plus(matchScore, Min3(mats.M[r - 1][c - 1], mats.G1[r - 1][c - 1],
                                     mats.G2[r - 1][c - 1]))]
      G1n == [mats.G1 EXCEPT ![r][c] =
               Min3(Plus(go + ge, M2[r][c - 1]),
                    Plus(ge, mats.G1[r][c - 1]),
                    Plus(go + ge, mats.G2[r][c - 1]))]
      G2n == [mats.G2 EXCEPT ![r][c] =
               Min3(Plus(go + ge, M2[r - 1][c]),
                    Plus(go + ge, G1n[r - 1][c]),
                    Plus(ge, mats.G2[r - 1][c]))]
  IN  [M |-> M2, G1 |-> G1n, G2 |-> G2n]

\* the double loop, row-major: cell number k is (k \div n + 1, k % n + 1)
RECURSIVE fillFrom(_, _, _, _, _, _, _, _)
fillFrom(mats, a, b, go, ge, mm, mb, k) ==
  IF k >= Len(a) * Len(b) THEN mats
  ELSE fillFrom(fillCell(mats, a, b, go, ge, mm, mb,
                         (k \div Len(b)) + 1, (k % Len(b)) + 1),
                a, b, go, ge, mm, mb, k + 1)

computeScoreMatrix(a, b, go, ge, mm, mb) ==
  fillFrom(initializeMatrix(a, b, go, ge), a, b, go, ge, mm, mb, 0)

\* ----------------------------------------------------- getAlignmentScore
\* min of the three [-1][-1] cells
lastCellScore(mats) ==
  LET m == Cardinality(DOMAIN mats.M) - 1
      n == Cardinality(DOMAIN mats.M[0]) - 1
  IN  Min3(mats.M[m][n], mats.G1[m][n], mats.G2[m][n])

\* the matrices of the instance, computed now if they are still None
needsFill(mm) == mm = None

currentMats == [M |-> matchMatrix, G1 |-> gapMatrix1, G2 |-> gapMatrix2]

matsAfterFill ==
  IF needsFill(matchMatrix)
    THEN computeScoreMatrix(s1, s2, gapOpeningPenalty, gapExtensionPenalty,
                            mismatchPenalty, matchBonus)
    ELSE currentMats

StoreMatrices(mats) ==
  /\ matchMatrix' = mats.M
  /\ gapMatrix1' = mats.G1
  /\ gapMatrix2' = mats.G2
  /\ fillCount' = IF needsFill(matchMatrix) THEN fillCount + 1 ELSE fillCount

GetAlignmentScore ==
  /\ pc = "idle"
  /\ LET mats == matsAfterFill
     IN  /\ StoreMatrices(mats)
         /\ ret' = [op |-> "getAlignmentScore", value |-> lastCellScore(mats),
                    cached |-> ~needsFill(matchMatrix)]
         /\ scoreReturns' = scoreReturns \cup {lastCellScore(mats)}
  /\ UNCHANGED <<args, attrs, fields, bestAlignment, pc, locals,
                 tracebackCount, alignReturns>>

\* --------------------------------------------------- _constructAlignment
\* Python indexing of a list or string of length len by k: negative k counts
\* from the end, anything outside -len..len-1 raises IndexError.
pyIndexOk(len, k) == k >= -len /\ k < len

pyIndex(len, k) == IF k < 0 THEN k + len ELSE k

\* s[k] of a Python string (0-based k)
charAt(s, k) == s[pyIndex(Len(s), k) + 1]

\* mat[r][c] of a Python list of lists
cellOk(mat, r, c) ==
  /\ pyIndexOk(Cardinality(DOMAIN mat), r)
  /\ pyIndexOk(Cardinality(DOMAIN mat[0]), c)

cell(mat, r, c) ==
  mat[pyIndex(Cardinality(DOMAIN mat), r)][pyIndex(Cardinality(DOMAIN mat[0]), c)]

\* the list a matrix reference points to
matOf(mats, ref) ==
  IF ref = "M" THEN mats.M ELSE IF ref = "G1" THEN mats.G1 ELSE mats.G2

\* "determine which matrix to start in"
selectStart(mats) ==
  LET sc == lastCellScore(mats)
  IN  IF sc = cell(mats.M, -1, -1) THEN "M"
      ELSE IF sc = cell(mats.G1, -1, -1) THEN "G1"
      ELSE "G2"

\* the re-selection at the end of a loop iteration, at the new (r, c)
selectAt(mats, r, c) ==
  LET sc == Min3(cell(mats.M, r, c), cell(mats.G1, r, c), cell(mats.G2, r, c))
  IN  IF sc = cell(mats.M, r, c) THEN "M"
      ELSE IF sc = cell(mats.G1, r, c) THEN "G1"
      ELSE IF sc = cell(mats.G2, r, c) THEN "G2"
      ELSE "ValueError"

\* which branch of the loop body runs: the tests compare the lists with ==,
\* that is, by value
branchOf(mats, ref) ==
  IF matOf(mats, ref) = mats.M THEN "MATCH"
  ELSE IF matOf(mats, ref) = mats.G1 THEN "GAP1"
  ELSE IF matOf(mats, ref) = mats.G2 THEN "GAP2"
  ELSE "none"

\* the column a branch appends to (s1Align, s2Align)
emitted(br, a, b, r, c) ==
  IF br = "MATCH" THEN <<charAt(a, r - 1), charAt(b, c - 1)>>
  ELSE IF br = "GAP1" THEN <<GapMarker, charAt(b, c - 1)>>
  ELSE <<charAt(a, r - 1), GapMarker>>

\* the characters a branch reads exist
readsOk(br, a, b, r, c) ==
  /\ br \in {"MATCH", "GAP2"} => pyIndexOk(Len(a), r - 1)
  /\ br \in {"MATCH", "GAP1"} => pyIndexOk(Len(b), c - 1)

\* the cell a branch moves to
movedRow(br, r) == IF br \in {"MATCH", "GAP2"} THEN r - 1 ELSE r

movedCol(br, c) == IF br \in {"MATCH", "GAP1"} THEN c - 1 ELSE c

\* one iteration of the while loop on the locals st
traceStep(mats, a, b, st) ==
  LET br == branchOf(mats, st.currentMatrix)
      r == IF br = "none" THEN st.i ELSE movedRow(br, st.i)
      c == IF br = "none" THEN st.j ELSE movedCol(br, st.j)
  IN  IF br # "none" /\ ~readsOk(br, a, b, st.i, st.j)
        THEN [st EXCEPT !.pc = "IndexError"]
      ELSE IF ~(cellOk(mats.M, r, c) /\ cellOk(mats.G1, r, c) /\ cellOk(mats.G2, r, c))
        THEN [st EXCEPT !.pc = "IndexError"]
      ELSE IF selectAt(mats, r, c) = "ValueError"
        THEN [st EXCEPT !.pc = "ValueError"]
      ELSE [i |-> r, j |-> c,
            s1Align |-> IF br = "none" THEN st.s1Align
                        ELSE Append(st.s1Align, emitted(br, a, b, st.i, st.j)[1]),
            s2Align |-> IF br = "none" THEN st.s2Align
                        ELSE Append(st.s2Align, emitted(br, a, b, st.i, st.j)[2]),
            currentMatrix |-> selectAt(mats, r, c),
            score |-> Min3(cell(mats.M, r, c), cell(mats.G1, r, c), cell(mats.G2, r, c)),
            pc |-> "loop"]

\* s[::-1]
\* variant: the strings are left in traceback order
reverseStringOmitted(s) == s

reverseString(s) == [k \in 1..Len(s) |-> s[Len(s) + 1 - k]]

\* the locals before the first iteration
traceStart(mats, a, b) ==
  [i |-> Len(a), j |-> Len(b), s1Align |-> <<>>, s2Align |-> <<>>,
   currentMatrix |-> selectStart(mats), score |-> lastCellScore(mats),
   pc |-> "loop"]

loopRuns(st) == st.i > 0 \/ st.j > 0

\* the whole loop, run to its end (or to the exception it raises)
RECURSIVE traceRun(_, _, _, _)
traceRun(mats, a, b, st) ==
  IF st.pc = "loop" /\ loopRuns(st) THEN traceRun(mats, a, b, traceStep(mats, a, b, st))
  ELSE st

\* the pair _constructAlignment stores for the final locals st
alignmentOf(st) == <<reverseString(st.s1Align), reverseString(st.s2Align)>>

\* ----------------------------------------------------------------- align
\* variant: the memoized pair is ignored
needsConstructAlways(best) == TRUE

needsConstruct(best) == best = None

st0 == [i |-> i, j |-> j, s1Align |-> s1Align, s2Align |-> s2Align,
        currentMatrix |-> currentMatrix, score |-> score, pc |-> pc]

SetLocals(st) ==
  /\ i' = st.i
  /\ j' = st.j
  /\ s1Align' = st.s1Align
  /\ s2Align' = st.s2Align
  /\ currentMatrix' = st.currentMatrix
  /\ score' = st.score
  /\ pc' = st.pc

\* align() up to the first test of the while loop
Align ==
  /\ pc = "idle"
  /\ IF needsConstruct(bestAlignment)
       THEN /\ LET mats == matsAfterFill
               IN  /\ StoreMatrices(mats)
                   /\ SetLocals(traceStart(mats, s1, s2))
            /\ tracebackCount' = tracebackCount + 1
            /\ UNCHANGED <<ret, alignReturns, bestAlignment>>
       ELSE /\ ret' = [op |-> "align", value |-> bestAlignment, cached |-> TRUE]
            /\ alignReturns' = alignReturns \cup {bestAlignment}
            /\ UNCHANGED <<matrices, fillCount, locals, pc, tracebackCount,
                           bestAlignment>>
  /\ UNCHANGED <<args, attrs, fields, scoreReturns>>

\* one iteration of the while loop
TraceIter ==
  /\ pc = "loop"
  /\ loopRuns(st0)
  /\ SetLocals(traceStep(currentMats, s1, s2, st0))
  /\ UNCHANGED <<args, attrs, fields, matrices, bestAlignment, ret,
                 fillCount, tracebackCount, scoreReturns, alignReturns>>

\* the loop test fails: reverse, store, return
AlignReturn ==
  /\ pc = "loop"
  /\ ~loopRuns(st0)
  /\ bestAlignment' = alignmentOf(st0)
  /\ ret' = [op |-> "align", value |-> alignmentOf(st0), cached |-> FALSE]
  /\ alignReturns' = alignReturns \cup {alignmentOf(st0)}
  /\ pc' = "idle"
  /\ UNCHANGED <<args, attrs, fields, matrices, locals, fillCount,
                 tracebackCount, scoreReturns>>

Next == Construct \/ GetAlignmentScore \/ Align \/ TraceIter \/ AlignReturn

Spec == Init /\ [][Next]_vars

\* ======================================================= properties
constructed == pc \in {"idle", "loop"}

stripGaps(s) == SelectSeq(s, LAMBDA ch : ch # GapMarker)

gapRun(k) == [x \in 1..k |-> GapMarker]

\* the matrices and the pair the code computes for (a, b), as functions of
\* the instance's fields alone
matsFor(a, b) ==
  computeScoreMatrix(a, b, gapOpeningPenalty, gapExtensionPenalty,
                     mismatchPenalty, matchBonus)

alignmentFor(a, b) ==
  alignmentOf(traceRun(matsFor(a, b), a, b, traceStart(matsFor(a, b), a, b)))

\* ---- reference cost of a global alignment: equal symbols cost matchBonus,
\* unequal ones mismatchPenalty, a maximal run of k gap columns of one
\* orientation costs gapOpen + gapExtend * (k - 1).  best(r, c, last) is the
\* least cost of an alignment of a[1..r] with b[1..c] whose last column is of
\* kind last.
RECURSIVE best(_, _, _, _, _)
leastBefore(a, b, r, c) ==
  IF r = 0 /\ c = 0 THEN 0
  ELSE Min3(best(a, b, r, c, "MATCH"), best(a, b, r, c, "GAP1"), best(a, b, r, c, "GAP2"))

best(a, b, r, c, last) ==
  IF last = "MATCH" THEN
    IF r >= 1 /\ c >= 1
      THEN Plus(IF a[r] = b[c] THEN matchBonus ELSE mismatchPenalty,
                leastBefore(a, b, r - 1, c - 1))
      ELSE Inf
  ELSE IF last = "GAP1" THEN
    IF c = 0 THEN Inf
    ELSE IF r = 0 /\ c = 1 THEN gapOpeningPenalty
    ELSE Min3(Plus(gapOpeningPenalty, best(a, b, r, c - 1, "MATCH")),
              Plus(gapExtensionPenalty, best(a, b, r, c - 1, "GAP1")),
              Plus(gapOpeningPenalty, best(a, b, r, c - 1, "GAP2")))
  ELSE
    IF r = 0 THEN Inf
    ELSE IF r = 1 /\ c = 0 THEN gapOpeningPenalty
    ELSE Min3(Plus(gapOpeningPenalty, best(a, b, r - 1, c, "MATCH")),
              Plus(gapOpeningPenalty, best(a, b, r - 1, c, "GAP1")),
              Plus(gapExtensionPenalty, best(a, b, r - 1, c, "GAP2")))

optimalCost(a, b) == leastBefore(a, b, Len(a), Len(b))

\* C1: every value getAlignmentScore() returns is the least cost of a global
\* alignment of s1 with s2 under the affine column costs.
C1_ScoreIsOptimal ==
  constructed => \A v \in scoreReturns : v = optimalCost(s1, s2)

\* C2: the stored pair has two strings of equal length, removing the gap
\* markers from them gives back s1 and s2, and no column is a pair of gap
\* markers.
C2_RoundTrip ==
  \A p \in alignReturns \cup (IF bestAlignment = None THEN {} ELSE {bestAlignment}) :
    /\ Len(p[1]) = Len(p[2])
    /\ stripGaps(p[1]) = s1
    /\ stripGaps(p[2]) = s2
    /\ \A k \in 1..Len(p[1]) : ~(p[1][k] = GapMarker /\ p[2][k] = GapMarker)

C2_Witness ==
  /\ bestAlignment # None
  /\ Len(s1) >= 2 /\ Len(s2) >= 2 /\ s1 # s2
  /\ \E k \in 1..Len(bestAlignment[1]) : bestAlignment[1][k] = GapMarker
  /\ \E k \in 1..Len(bestAlignment[2]) : bestAlignment[2][k] = GapMarker

\* ---- the charge the forward recurrence applies to the transition from
\* state y (at the predecessor cell) to state x at cell (r, c)
forwardCharge(x, y, r, c) ==
  IF x = "MATCH" THEN (IF s1[r] = s2[c] THEN matchBonus ELSE mismatchPenalty)
  ELSE IF x = y THEN gapExtensionPenalty
  ELSE gapOpeningPenalty + gapExtensionPenalty

C3_StepAgrees ==
  (pc = "loop" /\ loopRuns(st0) /\ pc' = "loop" /\ ~(i' = 0 /\ j' = 0)) =>
    LET x == branchOf(currentMats, currentMatrix)
        y == branchOf(currentMats, currentMatrix')
    IN  cell(matOf(currentMats, currentMatrix), i, j) =
          Plus(cell(matOf(currentMats, currentMatrix'), i', j'),
               forwardCharge(x, y, i, j))

\* C3: every traceback step from state X at (i, j) to the state Y selected at
\* a predecessor p other than (0, 0) satisfies X[i][j] = Y[p] + the charge
\* the forward recurrence applies to the transition Y -> X.
C3_TracebackAgrees == [][C3_StepAgrees]_vars

\* C4: construction fails exactly when a penalty is out of range, and then
\* sets no attribute; otherwise it sets them all, the strings and penalties
\* to the arguments, the matrices and the cached pair to None.
C4_Step ==
  pc = "new" =>
    IF \/ args.gapOpeningPenalty <= 0
       \/ args.gapExtensionPenalty < 0
       \/ args.mismatchPenalty <= 0
       \/ args.matchBonus > 0
      THEN /\ pc' = "AssertionError"
           /\ attrs' = {}
           /\ UNCHANGED <<fields, matrices, bestAlignment>>
      ELSE /\ pc' = "idle"
           /\ attrs' = AllAttrs
           /\ s1' = args.s1 /\ s2' = args.s2
           /\ gapOpeningPenalty' = args.gapOpeningPenalty
           /\ gapExtensionPenalty' = args.gapExtensionPenalty
           /\ mismatchPenalty' = args.mismatchPenalty
           /\ matchBonus' = args.matchBonus
           /\ matchMatrix' = None /\ gapMatrix1' = None /\ gapMatrix2' = None
           /\ bestAlignment' = None

C4_Construction == [][C4_Step]_vars

C4_Witness ==
  /\ pc = "AssertionError"
  /\ args.gapOpeningPenalty > 0 /\ args.mismatchPenalty > 0 /\ args.matchBonus <= 0
  /\ args.gapExtensionPenalty < 0
  /\ args.s1 = <<>>

\* C5: over any sequence of calls the fill and the traceback each run at most
\* once, the matrices are never written after the first fill, all calls of
\* one operation return the same value, and that value does not depend on
\* which operation came first.
C5_Step ==
  /\ matchMatrix # None => UNCHANGED matrices
  /\ bestAlignment # None => UNCHANGED bestAlignment
  /\ fillCount' <= 1
  /\ tracebackCount' <= 1
  /\ Cardinality(scoreReturns') <= 1
  /\ Cardinality(alignReturns') <= 1
  /\ constructed =>
       /\ \A v \in scoreReturns' \ scoreReturns : v = lastCellScore(matsFor(s1, s2))
       /\ \A p \in alignReturns' \ alignReturns : p = alignmentFor(s1, s2)

C5_Memoized == [][C5_Step]_vars

C5_Witness ==
  /\ fillCount = 1 /\ tracebackCount = 1
  /\ scoreReturns # {} /\ alignReturns # {}
  /\ Len(s1) >= 2 /\ Len(s2) >= 2
  /\ ret.op = "align" /\ ret.cached

\* C6: the score of (s1, s2) equals the score of (s2, s1), and the filled
\* matrices of the two are transposes with the gap matrices exchanged.
C6_Step ==
  (constructed /\ matchMatrix' # matchMatrix) =>
    LET sw == matsFor(s2, s1)
    IN  /\ lastCellScore([M |-> matchMatrix', G1 |-> gapMatrix1', G2 |-> gapMatrix2'])
             = lastCellScore(sw)
        /\ \A v \in scoreReturns' : v = lastCellScore(sw)
        /\ \A r \in 0..Len(s1) : \A c \in 0..Len(s2) :
             /\ sw.M[c][r] = matchMatrix'[r][c]
             /\ sw.G1[c][r] = gapMatrix2'[r][c]
             /\ sw.G2[c][r] = gapMatrix1'[r][c]

C6_Symmetry == [][C6_Step]_vars

C6_Witness ==
  /\ matchMatrix # None
  /\ scoreReturns # {}
  /\ Len(s1) >= 2 /\ Len(s2) >= 1 /\ Len(s1) # Len(s2)
  /\ gapMatrix1[Len(s1)][Len(s2)] # gapMatrix2[Len(s1)][Len(s2)]

\* C7: with one string empty and the other of length k >= 1 the score is
\* gapOpen + gapExtend * (k - 1) and the pair is k gap markers against the
\* non-empty string.
C7_EmptyAgainstNonEmpty ==
  constructed =>
    /\ (Len(s1) = 0 /\ Len(s2) >= 1) =>
         /\ \A v \in scoreReturns :
              v = gapOpeningPenalty + gapExtensionPenalty * (Len(s2) - 1)
         /\ \A p \in alignReturns : p = <<gapRun(Len(s2)), s2>>
    /\ (Len(s2) = 0 /\ Len(s1) >= 1) =>
         /\ \A v \in scoreReturns :
              v = gapOpeningPenalty + gapExtensionPenalty * (Len(s1) - 1)
         /\ \A p \in alignReturns : p = <<s1, gapRun(Len(s1))>>

C7_Witness ==
  /\ Len(s1) = 0 /\ Len(s2) >= 2
  /\ gapExtensionPenalty > 0
  /\ scoreReturns # {} /\ alignReturns # {}

\* C8: with both strings empty getAlignmentScore() returns 0 and align()
\* returns the empty pair.
C8_BothEmpty ==
  (constructed /\ Len(s1) = 0 /\ Len(s2) = 0) =>
    /\ \A v \in scoreReturns : v = 0
    /\ \A p \in alignReturns : p = <<<<>>, <<>>>>

\* C9: with the default penalties a non-empty string aligned with itself
\* scores len(s) * matchBonus and the pair is (s, s).
C9_Identical ==
  (/\ constructed
   /\ gapOpeningPenalty = GAP_OPENING_PENALTY
   /\ gapExtensionPenalty = GAP_EXTENSION_PENALTY
   /\ mismatchPenalty = MISMATCH_PENALTY
   /\ matchBonus = MATCH_BONUS
   /\ s1 = s2 /\ Len(s1) >= 1) =>
    /\ \A v \in scoreReturns : v = Len(s1) * MATCH_BONUS
    /\ \A p \in alignReturns : p = <<s1, s2>>

\* C10: every iteration of the traceback loop strictly decreases i + j and
\* reads only characters that exist (MATCH only with i >= 1 and j >= 1, GAP1
\* only with j >= 1, GAP2 only with i >= 1), i and j never become negative,
\* the loop stops exactly at i = 0 and j = 0, and no exception is raised.
C10_State ==
  /\ pc \notin {"ValueError", "IndexError"}
  /\ pc = "loop" =>
       /\ i >= 0 /\ j >= 0
       /\ (~loopRuns(st0)) <=> (i = 0 /\ j = 0)
       /\ loopRuns(st0) =>
            LET br == branchOf(currentMats, currentMatrix)
            IN  /\ br \in {"MATCH", "GAP1", "GAP2"}
                /\ br = "MATCH" => (i >= 1 /\ j >= 1)
                /\ br = "GAP1" => j >= 1
                /\ br = "GAP2" => i >= 1

C10_Step ==
  (pc = "loop" /\ loopRuns(st0)) => (pc' = "loop" /\ i' + j' < i + j)

C10_TracebackTerminates == [][C10_Step /\ C10_State']_vars

C10_Witness ==
  /\ pc = "loop" /\ i = 0 /\ j = 0
  /\ Len(s1) >= 2 /\ Len(s2) >= 2
  /\ Len(s1Align) > Len(s1) /\ Len(s1Align) > Len(s2)
====
